---- MODULE Spec2Model ----
(***************************************************************************)
(* Model of scripts/openai_stream_benchmark.py: the configuration          *)
(* resolver, the request executor, the SSE stream decoder, the sequential  *)
(* benchmark runner (main) and the report persistence step.                *)
(*                                                                         *)
(* Time is counted in whole seconds.  Text is a sequence of tokens, a      *)
(* message is a sequence of text pieces (<<>> is the empty string).        *)
(***************************************************************************)
EXTENDS Integers, Sequences, FiniteSets, TLC

\* ------------------------------------------------------------------------
\* Bounds of the model
\* ------------------------------------------------------------------------
\* largest OPENAI_REQUEST_COUNT the environment provides
MaxCount == 2
\* largest number of lines a response stream delivers
MaxLines == 3

\* ------------------------------------------------------------------------
\* Values
\* ------------------------------------------------------------------------
\* Python None / a str, as returned by os.getenv for a string setting
None == [k |-> "none", s |-> <<>>]
Str(s) == [k |-> "str", s |-> s]

\* a float: finite (v seconds; tenths for the temperature) or infinity
Fin(v) == [k |-> "fin", v |-> v]
Inf == [k |-> "inf", v |-> 0]

\* the raw value of a numeric setting in the environment: unset, empty, the
\* text of an integer, the text "inf", or text that is no number
RawNone == [k |-> "none", v |-> 0]
RawEmpty == [k |-> "empty", v |-> 0]
IntText(n) == [k |-> "int", v |-> n]
InfText == [k |-> "inf", v |-> 0]
BadText == [k |-> "abc", v |-> 0]

NL == "\n"
\* the backquote character of Markdown
Tick == "(backquote)"

\* the default prompt (a short probe phrase in Chinese)
DefaultPrompt == <<"reply briefly: service available.">>

\* a URL is the sequence of its pieces
DefaultUrl == <<"https", ":", "//api.openai.com/v1/chat/completions">>
NoSchemeUrl == <<"api.openai.com/v1/chat/completions">>

\* ------------------------------------------------------------------------
\* Config Resolver
\* ------------------------------------------------------------------------
Ok(val) == [ok |-> TRUE, val |-> val, err |-> <<>>]
Raise(msg) == [ok |-> FALSE, val |-> 0, err |-> msg]

\* env_str: os.getenv(name, default); the default replaces an unset
\* variable only, an empty one stays empty
env_str(name, value, default, required) ==
    LET v == IF value.k = "none" THEN default ELSE value
    IN  IF required /\ (v.k = "none" \/ v.s = <<>>)
        THEN Raise(<<"Missing required environment variable: ", name>>)
        ELSE Ok(IF v.k = "none" THEN <<>> ELSE v.s)

\* env_int: int(value) rejects "inf" and "abc"
env_int(name, raw, default) ==
    IF raw.k \in {"none", "empty"} THEN Ok(default)
    ELSE IF raw.k = "int" THEN Ok(raw.v)
    ELSE Raise(<<name, " must be an integer, got: ", raw.k>>)

\* env_float: float(value) accepts "inf", rejects "abc"
env_float(name, raw, default) ==
    IF raw.k \in {"none", "empty"} THEN Ok(default)
    ELSE IF raw.k = "int" THEN Ok(Fin(raw.v))
    ELSE IF raw.k = "inf" THEN Ok(Inf)
    ELSE Raise(<<name, " must be a number, got: ", raw.k>>)

\* x < 0 and x > 0 on floats
FloatNeg(x) == x.k = "fin" /\ x.v < 0
FloatPos(x) == x.k = "inf" \/ (x.k = "fin" /\ x.v > 0)

\* the locals of main after lines 280-302
Defaults ==
    [api_url |-> DefaultUrl, api_key |-> <<>>, model |-> <<"gpt-4o-mini">>,
     prompt |-> DefaultPrompt, request_count |-> 5,
     timeout_seconds |-> 120, max_runtime_seconds |-> 0, max_tokens |-> 128,
     pause_seconds |-> Fin(0), temperature |-> Fin(1),
     raised |-> FALSE, err |-> <<>>]

\* the ten reads of lines 305-314, in program order
Reads(env) ==
    << [f |-> "api_url",
        r |-> env_str("OPENAI_API_URL", env.OPENAI_API_URL, Str(DefaultUrl), FALSE)],
       [f |-> "api_key",
        r |-> env_str("OPENAI_API_KEY", env.OPENAI_API_KEY, None, TRUE)],
       [f |-> "model",
        r |-> env_str("OPENAI_MODEL", env.OPENAI_MODEL, Str(<<"gpt-4o-mini">>), FALSE)],
       [f |-> "prompt",
        r |-> env_str("OPENAI_PROMPT", env.OPENAI_PROMPT, Str(DefaultPrompt), FALSE)],
       [f |-> "request_count",
        r |-> env_int("OPENAI_REQUEST_COUNT", env.OPENAI_REQUEST_COUNT, 5)],
       [f |-> "timeout_seconds",
        r |-> env_int("OPENAI_REQUEST_TIMEOUT_SECONDS",
                      env.OPENAI_REQUEST_TIMEOUT_SECONDS, 120)],
       [f |-> "max_runtime_seconds",
        r |-> env_int("OPENAI_MAX_RUNTIME_SECONDS",
                      env.OPENAI_MAX_RUNTIME_SECONDS, 0)],
       [f |-> "max_tokens",
        r |-> env_int("OPENAI_MAX_TOKENS", env.OPENAI_MAX_TOKENS, 128)],
       [f |-> "pause_seconds",
        r |-> env_float("OPENAI_REQUEST_PAUSE_SECONDS",
                        env.OPENAI_REQUEST_PAUSE_SECONDS, Fin(0))],
       [f |-> "temperature",
        r |-> env_float("OPENAI_TEMPERATURE", env.OPENAI_TEMPERATURE, Fin(1))] >>

\* the assignments are made one by one: a read that raises leaves the
\* locals after it at their initial values
RECURSIVE Assign(_, _, _)
Assign(L, reads, i) ==
    IF i > Len(reads) THEN L
    ELSE IF ~reads[i].r.ok
         THEN [L EXCEPT !.raised = TRUE, !.err = reads[i].r.err]
         ELSE Assign([L EXCEPT ![reads[i].f] = reads[i].r.val], reads, i + 1)

\* Validate without its first check: a request count <= 0 is let through
Validate_NoCountCheck(L) ==
    IF L.raised THEN L
    ELSE IF L.timeout_seconds <= 0
         THEN [L EXCEPT !.raised = TRUE,
                        !.err = <<"OPENAI_REQUEST_TIMEOUT_SECONDS must be > 0">>]
    ELSE IF L.max_tokens <= 0
         THEN [L EXCEPT !.raised = TRUE, !.err = <<"OPENAI_MAX_TOKENS must be > 0">>]
    ELSE IF L.max_runtime_seconds < 0
         THEN [L EXCEPT !.raised = TRUE,
                        !.err = <<"OPENAI_MAX_RUNTIME_SECONDS must be >= 0">>]
    ELSE IF FloatNeg(L.pause_seconds)
         THEN [L EXCEPT !.raised = TRUE,
                        !.err = <<"OPENAI_REQUEST_PAUSE_SECONDS must be >= 0">>]
    ELSE L

\* the five checks of lines 316-325
Validate(L) ==
    IF L.raised THEN L
    ELSE IF L.request_count <= 0
         THEN [L EXCEPT !.raised = TRUE, !.err = <<"OPENAI_REQUEST_COUNT must be > 0">>]
    ELSE IF L.timeout_seconds <= 0
         THEN [L EXCEPT !.raised = TRUE,
                        !.err = <<"OPENAI_REQUEST_TIMEOUT_SECONDS must be > 0">>]
    ELSE IF L.max_tokens <= 0
         THEN [L EXCEPT !.raised = TRUE, !.err = <<"OPENAI_MAX_TOKENS must be > 0">>]
    ELSE IF L.max_runtime_seconds < 0
         THEN [L EXCEPT !.raised = TRUE,
                        !.err = <<"OPENAI_MAX_RUNTIME_SECONDS must be >= 0">>]
    ELSE IF FloatNeg(L.pause_seconds)
         THEN [L EXCEPT !.raised = TRUE,
                        !.err = <<"OPENAI_REQUEST_PAUSE_SECONDS must be >= 0">>]
    ELSE L

\* configuration resolution as a whole: the locals it leaves, with
\* raised = TRUE and the ValueError's text when it fails
ResolveConfig(env) == Validate(Assign(Defaults, Reads(env), 1))

\* an environment with nothing set
NoEnv ==
    [OPENAI_API_URL |-> None, OPENAI_API_KEY |-> None, OPENAI_MODEL |-> None,
     OPENAI_PROMPT |-> None, OPENAI_REQUEST_COUNT |-> RawNone,
     OPENAI_REQUEST_TIMEOUT_SECONDS |-> RawNone,
     OPENAI_MAX_RUNTIME_SECONDS |-> RawNone, OPENAI_MAX_TOKENS |-> RawNone,
     OPENAI_REQUEST_PAUSE_SECONDS |-> RawNone, OPENAI_TEMPERATURE |-> RawNone]

\* the environments of the model
Envs ==
    [OPENAI_API_URL : {None, Str(NoSchemeUrl)},
     OPENAI_API_KEY : {None, Str(<<>>), Str(<<"sk-test">>)},
     OPENAI_MODEL : {None},
     OPENAI_PROMPT : {None},
     OPENAI_REQUEST_COUNT : {BadText} \cup {IntText(n) : n \in -1..MaxCount},
     OPENAI_REQUEST_TIMEOUT_SECONDS : {RawNone, BadText, IntText(0)},
     OPENAI_MAX_RUNTIME_SECONDS : {RawEmpty, BadText, IntText(-1), IntText(1), IntText(3)},
     OPENAI_MAX_TOKENS : {RawNone, BadText, IntText(0)},
     OPENAI_REQUEST_PAUSE_SECONDS : {RawNone, BadText, IntText(-1), IntText(1), InfText},
     OPENAI_TEMPERATURE : {RawNone, BadText}]

\* ------------------------------------------------------------------------
\* Stream Decoder
\* ------------------------------------------------------------------------
\* A line of the response body (its newline removed) is a sequence of
\* pieces: whitespace, the literals "data:" and "[DONE]", other text, or the
\* text of one JSON value.  The JSON value is described by what the decoder
\* looks at: its top-level type, "choices", choices[0], "delta", "content".
NoJson == [top |-> "none", choices |-> "absent", first |-> "none",
           delta |-> "absent", content |-> [k |-> "none", s |-> <<>>]]
Piece(t) == [t |-> t, j |-> NoJson]
JsonPiece(j) == [t |-> "json", j |-> j]
Ws == Piece("ws")
DataPrefix == Piece("data:")
DoneLit == Piece("[DONE]")

\* {"choices":[{"delta":{"content": c}}]}
Chunk(c) == [top |-> "dict", choices |-> "list", first |-> "dict",
             delta |-> "dict", content |-> c]
StrContent(s) == [k |-> "str", s |-> s]

\* str.strip()
RECURSIVE lstrip(_)
lstrip(line) ==
    IF line # <<>> /\ Head(line).t = "ws" THEN lstrip(Tail(line)) ELSE line
RECURSIVE rstrip(_)
rstrip(line) ==
    IF line # <<>> /\ line[Len(line)].t = "ws"
    THEN rstrip(SubSeq(line, 1, Len(line) - 1)) ELSE line
strip(line) == rstrip(lstrip(line))

\* str.startswith("data:")
startswith_data(line) == line # <<>> /\ Head(line).t = "data:"

\* json.loads(data): the value, or JSONDecodeError for the empty string,
\* for text that is not JSON and for text after the value
json_loads(data) ==
    IF Len(data) = 1 /\ data[1].t = "json" THEN Ok(data[1].j)
    ELSE Raise(<<"JSONDecodeError">>)

\* lines 84-92 on a parsed payload: skip the frame, append a token, or
\* raise from .get / [0] on a value that has no such operation
frame_token(payload) ==
    IF payload.top # "dict"
    THEN [act |-> "raise", exc |-> "AttributeError", token |-> <<>>]
    ELSE IF payload.choices \in {"absent", "null", "empty"}
    THEN [act |-> "skip", exc |-> "", token |-> <<>>]
    ELSE IF payload.choices # "list"
    THEN [act |-> "raise", exc |-> "KeyError", token |-> <<>>]
    ELSE IF payload.first # "dict"
    THEN [act |-> "raise", exc |-> "AttributeError", token |-> <<>>]
    ELSE IF payload.delta = "absent"
    THEN [act |-> "skip", exc |-> "", token |-> <<>>]
    ELSE IF payload.delta # "dict"
    THEN [act |-> "raise", exc |-> "AttributeError", token |-> <<>>]
    ELSE IF payload.content.k = "str" /\ payload.content.s # <<>>
    THEN [act |-> "append", exc |-> "", token |-> payload.content.s]
    ELSE [act |-> "skip", exc |-> "", token |-> <<>>]

\* "".join(full_text)
RECURSIVE join(_)
join(parts) == IF parts = <<>> THEN <<>> ELSE Head(parts) \o join(Tail(parts))

\* what a call of parse_sse_stream does: it returns the text or an exception
\* leaves it; read is the number of lines readline() delivered to it
Returned(text, read) == [raised |-> FALSE, exc |-> "", text |-> text, read |-> read]
Thrown(exc, read) == [raised |-> TRUE, exc |-> exc, text |-> <<>>, read |-> read]

\* the loop of parse_sse_stream from line i of the response on.  After the
\* last line readline() returns b"" (end of input) or, when the transport
\* gives up first, raises socket.timeout.
RECURSIVE read_loop(_, _, _)
read_loop(response, i, full_text) ==
    IF i > Len(response.lines)
    THEN IF response.fail = "timeout" THEN Thrown("timeout", i - 1)
         ELSE Returned(join(full_text), i - 1)
    ELSE LET decoded == strip(response.lines[i]) IN
         IF ~startswith_data(decoded) THEN read_loop(response, i + 1, full_text)
         ELSE LET data == strip(Tail(decoded)) IN
              IF data = <<DoneLit>> THEN Returned(join(full_text), i)
              ELSE LET parsed == json_loads(data) IN
                   IF ~parsed.ok THEN read_loop(response, i + 1, full_text)
                   ELSE LET f == frame_token(parsed.val) IN
                        IF f.act = "raise" THEN Thrown(f.exc, i)
                        ELSE IF f.act = "append"
                        THEN read_loop(response, i + 1, Append(full_text, f.token))
                        ELSE read_loop(response, i + 1, full_text)

parse_sse_stream(response) == read_loop(response, 1, <<>>)

\* ------------------------------------------------------------------------
\* Request Executor
\* ------------------------------------------------------------------------
\* urllib's Request(url): the URL type is the text before the first ":";
\* a URL without one makes Request raise ValueError("unknown url type")
splittype(url) == IF Len(url) >= 2 /\ url[2] = ":" THEN url[1] ELSE "None"

\* What the network does for one request:
\*   open     result of urlopen: "ok" (a 2xx response), "HTTPError" (any
\*            other status), "URLError", "timeout", "HTTPException"
\*   status   the response status
\*   body     result of reading the error body: "ok" or "timeout"
\*   response the body of a 200 response: its lines, and whether the
\*            transport times out after delivering them
\*   d        the seconds the cycle takes
NoResponse == [lines |-> <<>>, fail |-> "none"]
\* the body of an error response
ErrBody == <<"upstream", "|", NL, "unavailable">>
Behaviour(open, status, body, response, d) ==
    [open |-> open, status |-> status, body |-> body, response |-> response, d |-> d]

Outcome(raised, exc, msg, text) ==
    [raised |-> raised, exc |-> exc, msg |-> msg, text |-> text]

\* lines 133-139: what the body of the try statement returns or throws
try_body(b) ==
    IF b.open # "ok" THEN Outcome(TRUE, b.open, <<b.open>>, <<>>)
    ELSE IF b.status # 200
    THEN IF b.body = "ok"
         THEN Outcome(TRUE, "RuntimeError",
                      <<"HTTP ", ToString(b.status), ": ">> \o ErrBody, <<>>)
         ELSE Outcome(TRUE, b.body, <<b.body>>, <<>>)
    ELSE LET p == parse_sse_stream(b.response)
         IN  Outcome(p.raised, p.exc, <<p.exc>>, p.text)

\* a RequestResult that never counts the characters of the decoded text
RequestResult_NoChars(index, ok, duration, chars, error) ==
    [index |-> index, ok |-> ok, duration |-> duration, chars |-> 0,
     error |-> error]

RequestResult(index, ok, duration, chars, error) ==
    [index |-> index, ok |-> ok, duration |-> duration, chars |-> chars,
     error |-> error]
NoResult == RequestResult(0, FALSE, 0, 0, <<>>)

Return(result) == [raised |-> FALSE, exc |-> "", msg |-> <<>>, result |-> result]
Escape(exc, msg) == [raised |-> TRUE, exc |-> exc, msg |-> msg, result |-> NoResult]

\* run_single_request: the result it returns, or the exception that leaves
\* it.  Request() is called before the try statement; the error body of an
\* HTTPError is read inside the except clause, outside any try.
run_single_request(idx, total, api_url, b) ==
    IF splittype(api_url) = "None"
    THEN Escape("ValueError", <<"unknown url type: ">> \o api_url)
    ELSE LET t == try_body(b) IN
         IF ~t.raised
         THEN Return(RequestResult(idx, TRUE, b.d, Len(t.text), <<>>))
         ELSE IF t.exc = "HTTPError"
         THEN IF b.body = "ok"
              THEN Return(RequestResult(idx, FALSE, b.d, 0,
                       <<"HTTPError ", ToString(b.status), ": ">> \o ErrBody))
              ELSE Escape(b.body, <<b.body>>)
         ELSE IF t.exc \in {"URLError", "timeout"}
         THEN Return(RequestResult(idx, FALSE, b.d, 0,
                  <<"Network/Timeout error: ">> \o t.msg))
         ELSE Return(RequestResult(idx, FALSE, b.d, 0,
                  <<"Unexpected error: ">> \o t.msg))

\* the response bodies and network behaviours of the runner's model
HiFrame == <<DataPrefix, Ws, JsonPiece(Chunk(StrContent(<<"H", "i">>)))>>
DoneFrame == <<DataPrefix, Ws, DoneLit>>
NumberFrame == <<DataPrefix, Ws, JsonPiece([NoJson EXCEPT !.top = "number"])>>
Responses ==
    { [lines |-> <<HiFrame, <<>>, DoneFrame, <<>> >>, fail |-> "none"],
      [lines |-> <<>>, fail |-> "none"],
      [lines |-> <<NumberFrame>>, fail |-> "none"],
      [lines |-> <<HiFrame>>, fail |-> "timeout"] }
Durations == {1, 2}
Behaviours ==
    { Behaviour("ok", 200, "ok", r, d) : r \in Responses, d \in Durations }
    \cup { Behaviour("ok", 204, body, NoResponse, d) :
             body \in {"ok", "timeout"}, d \in Durations }
    \cup { Behaviour("HTTPError", 500, body, NoResponse, d) :
             body \in {"ok", "timeout"}, d \in Durations }
    \cup { Behaviour(open, 0, "ok", NoResponse, d) :
             open \in {"URLError", "timeout", "HTTPException"}, d \in Durations }

\* ------------------------------------------------------------------------
\* Report Builder
\* ------------------------------------------------------------------------
\* a float computed from integers, kept exact, or None
Rat(num, den) == [k |-> "num", num |-> num, den |-> den]
NoneNum == [k |-> "none", num |-> 0, den |-> 1]

README_RESULT_START == "<!-- OPENAI_BENCHMARK_RESULTS_START -->"
README_RESULT_END == "<!-- OPENAI_BENCHMARK_RESULTS_END -->"

\* f"{x:.3f}" and f"{x:.2f}" of a non-negative number: rounded to the
\* nearest unit of the last place, digit by digit
fixed(x, places) ==
    LET scale == IF places = 3 THEN 1000 ELSE 100
        u == (2 * x.num * scale + x.den) \div (2 * x.den)
        frac == u % scale
    IN  <<ToString(u \div scale), ".">>
        \o (IF places = 3 THEN <<ToString(frac \div 100)>> ELSE <<>>)
        \o <<ToString((frac \div 10) % 10), ToString(frac % 10)>>
fixed_or_na(x) == IF x.k = "none" THEN <<"N/A">> ELSE fixed(x, 3)

\* str() of a float of whole seconds, and of the temperature (in tenths)
float_str(x) == IF x.k = "inf" THEN <<"inf">> ELSE <<ToString(x.v), ".0">>
tenths_str(x) == <<ToString(x.v \div 10), ".", ToString(x.v % 10)>>

\* safe_markdown_text: "|" becomes "\|" and a newline becomes a space
RECURSIVE safe_markdown_text(_)
safe_markdown_text(text) ==
    IF text = <<>> THEN <<>>
    ELSE (IF Head(text) = "|" THEN <<"\\", "|">>
          ELSE IF Head(text) = NL THEN <<" ">>
          ELSE <<Head(text)>>) \o safe_markdown_text(Tail(text))

\* lines 269-275: the rows of the detail table
RECURSIVE detail_rows(_)
detail_rows(rs) ==
    IF rs = <<>> THEN <<>>
    ELSE LET item == Head(rs)
             state == IF item.ok THEN "SUCCESS" ELSE "FAILED"
             err_text == IF item.error # <<>> THEN safe_markdown_text(item.error)
                         ELSE <<"-">>
         IN  << <<"| ", ToString(item.index), " | ", state, " | ">>
                \o fixed(Rat(item.duration, 1), 3)
                \o <<" | ", ToString(item.chars), " | ">> \o err_text \o <<" |">> >>
             \o detail_rows(Tail(rs))

DetailHeader == <<"### request details">>

\* build_report_lines: the lines of the report, each a sequence of pieces.
\* The labels are written in Chinese in the source; the two timestamps of
\* now_iso_strings are the pieces "utc_now" and "beijing_now".
build_report_lines(a_url, a_model, a_prompt, n_planned, a_timeout, a_max_runtime, a_max_tokens, a_temperature, a_pause, n_attempted, n_success, n_failure, a_availability, a_total_runtime, a_avg, a_fastest, a_slowest, rs, a_status, a_error_message) ==
    << <<"## latest run result">>,
       <<>>,
       <<"- status: **", a_status, "**">>,
       <<"- time(UTC): ", Tick, "utc_now", Tick>>,
       <<"- time(Asia/Shanghai): ", Tick, "beijing_now", Tick>>,
       <<"- API URL: ", Tick>> \o a_url \o <<Tick>>,
       <<"- Model: ", Tick>> \o a_model \o <<Tick>>,
       <<"- Prompt: ", Tick>> \o a_prompt \o <<Tick>>,
       <<"- planned requests: ", Tick, ToString(n_planned), Tick>>,
       <<"- attempted requests: ", Tick, ToString(n_attempted), Tick>>,
       <<"- timeout(s): ", Tick, ToString(a_timeout), Tick>>,
       <<"- max runtime(s): ", Tick, ToString(a_max_runtime), Tick>>,
       <<"- Max Tokens: ", Tick, ToString(a_max_tokens), Tick>>,
       <<"- Temperature: ", Tick>> \o tenths_str(a_temperature) \o <<Tick>>,
       <<"- pause(s): ", Tick>> \o float_str(a_pause) \o <<Tick>>,
       <<"- successes: ", Tick, ToString(n_success), Tick>>,
       <<"- failures: ", Tick, ToString(n_failure), Tick>>,
       <<"- availability: ", Tick>> \o fixed(a_availability, 2) \o <<"%", Tick>>,
       <<"- total runtime(s): ", Tick>> \o fixed(Rat(a_total_runtime, 1), 3) \o <<Tick>>,
       <<"- average(s): ", Tick>> \o fixed_or_na(a_avg) \o <<Tick>>,
       <<"- fastest(s): ", Tick>> \o fixed_or_na(a_fastest) \o <<Tick>>,
       <<"- slowest(s): ", Tick>> \o fixed_or_na(a_slowest) \o <<Tick>> >>
    \o (IF a_error_message # <<>>
        THEN << <<"- error: ", Tick>> \o safe_markdown_text(a_error_message) \o <<Tick>> >>
        ELSE <<>>)
    \o << <<>>,
          DetailHeader,
          <<>>,
          <<"| index | state | duration(s) | chars | error |">>,
          <<"|---|---|---:|---:|---|">> >>
    \o (IF rs = <<>> THEN << <<"| - | - | - | - | no request executed |">> >>
        ELSE detail_rows(rs))

\* ------------------------------------------------------------------------
\* Persistence
\* ------------------------------------------------------------------------
IsSpace(piece) == piece \in {NL, " "}

\* str.strip() and str.rstrip() on a text of pieces
RECURSIVE text_lstrip(_)
text_lstrip(text) ==
    IF text # <<>> /\ IsSpace(Head(text)) THEN text_lstrip(Tail(text)) ELSE text
RECURSIVE text_rstrip(_)
text_rstrip(text) ==
    IF text # <<>> /\ IsSpace(text[Len(text)])
    THEN text_rstrip(SubSeq(text, 1, Len(text) - 1)) ELSE text
text_strip(text) == text_rstrip(text_lstrip(text))

\* "\n".join(lines)
RECURSIVE join_lines(_)
join_lines(lines) ==
    IF lines = <<>> THEN <<>>
    ELSE IF Len(lines) = 1 THEN Head(lines)
    ELSE Head(lines) \o <<NL>> \o join_lines(Tail(lines))

\* the position of the first occurrence of piece in text at or after i, or 0
find(text, piece, i) ==
    LET at == {k \in i..Len(text) : text[k] = piece}
    IN  IF at = {} THEN 0 ELSE CHOOSE k \in at : \A m \in at : k <= m

\* re.sub(START.*?END\n?, "", content): every leftmost region from a start
\* marker to the nearest end marker after it is removed, with one newline
\* that follows it
RECURSIVE remove_regions(_)
remove_regions(content) ==
    LET i == find(content, README_RESULT_START, 1)
        j == IF i = 0 THEN 0 ELSE find(content, README_RESULT_END, i + 1)
    IN  IF i = 0 \/ j = 0 THEN content
        ELSE LET k == IF j < Len(content) /\ content[j + 1] = NL THEN j + 1 ELSE j
             IN  SubSeq(content, 1, i - 1)
                 \o remove_regions(SubSeq(content, k + 1, Len(content)))

\* the document update_readme_tail starts from when the file is missing
PlaceholderReadme == <<"# OpenAI API Availability Monitor", NL, NL>>
NoFile == [exists |-> FALSE, content |-> <<>>]
File(content) == [exists |-> TRUE, content |-> content]

\* update_readme_tail: the new content of the file
update_readme_tail(file, lines) ==
    LET content == IF file.exists THEN file.content ELSE PlaceholderReadme
        block == <<README_RESULT_START, NL>> \o text_strip(join_lines(lines))
                 \o <<NL, README_RESULT_END, NL>>
        content_without_old == text_rstrip(remove_regions(content))
    IN  content_without_old \o <<NL, NL>> \o block

\* the documents main may find at the README path
Readmes ==
    { NoFile,
      File(<<"# Monitor", NL, NL, README_RESULT_START, NL, "old report", NL,
             README_RESULT_END, NL, NL, "## License", NL>>) }

\* ------------------------------------------------------------------------
\* Benchmark Runner: the state of main
\* ------------------------------------------------------------------------
VARIABLES
    pc,                  \* position in main
    environ,             \* os.environ as main reads it, the input of the run
    api_url, api_key, model, prompt, request_count, timeout_seconds,
    max_runtime_seconds, max_tokens, pause_seconds, temperature,
    idx,                 \* the loop variable of "for idx in range(...)"
    now,                 \* time.perf_counter()
    suite_start,
    results,
    attempted, success_count, failure_count, availability, total_runtime,
    avg_duration, fastest, slowest,
    status, error_message, exit_code,
    report_lines,        \* the lines build_report_lines returned
    readme,              \* the file at the README path
    readme_before,       \* history: the file as update_readme_tail found it
    readme_first,        \* history: the file as the first update_readme_tail found it
    writes,              \* history: the number of times the README was written
    resolved,            \* history: outcome of configuration resolution
    calls,               \* history: the calls of run_single_request (index, elapsed time
                         \* at the call, what the network did)
    escaped,             \* history: the exceptions that left run_single_request
    stopped_at,          \* history: the index at which the budget stopped the loop, or 0
    sleeps,              \* history: the indices after which time.sleep was called
    sse_pc,              \* the decoder on its own: "idle", "ready" or "done"
    sse_response,        \* the response body handed to parse_sse_stream
    sse_result           \* what parse_sse_stream did with it

configVars == <<api_url, api_key, model, prompt, request_count, timeout_seconds,
                max_runtime_seconds, max_tokens, pause_seconds, temperature>>
summaryVars == <<attempted, success_count, failure_count, availability,
                 total_runtime, avg_duration, fastest, slowest>>
outcomeVars == <<status, error_message, exit_code>>
reportVars == <<report_lines, readme, readme_before, readme_first, writes>>
sseVars == <<sse_pc, sse_response, sse_result>>
historyVars == <<resolved, calls, escaped, stopped_at, sleeps>>
vars == <<pc, environ, configVars, idx, now, suite_start, results, summaryVars,
          outcomeVars, reportVars, historyVars, sseVars>>

\* lines 280-302: the locals of main before the try statement
InitLocals ==
    /\ api_url = Defaults.api_url
    /\ api_key = Defaults.api_key
    /\ model = Defaults.model
    /\ prompt = Defaults.prompt
    /\ request_count = Defaults.request_count
    /\ timeout_seconds = Defaults.timeout_seconds
    /\ max_runtime_seconds = Defaults.max_runtime_seconds
    /\ max_tokens = Defaults.max_tokens
    /\ pause_seconds = Defaults.pause_seconds
    /\ temperature = Defaults.temperature
    /\ idx = 0
    /\ now = 0
    /\ suite_start = 0
    /\ results = <<>>
    /\ attempted = 0
    /\ success_count = 0
    /\ failure_count = 0
    /\ availability = Rat(0, 1)
    /\ total_runtime = 0
    /\ avg_duration = NoneNum
    /\ fastest = NoneNum
    /\ slowest = NoneNum
    /\ status = "FAILED"
    /\ error_message = <<>>
    /\ exit_code = 1
    /\ report_lines = <<>>
    /\ readme = NoFile
    /\ readme_before = NoFile
    /\ readme_first = NoFile
    /\ writes = 0
    /\ resolved = "pending"
    /\ calls = <<>>
    /\ escaped = <<>>
    /\ stopped_at = 0
    /\ sleeps = <<>>

\* the decoder is not run on its own during a run of main
SseIdle ==
    /\ sse_pc = "idle"
    /\ sse_response = NoResponse
    /\ sse_result = Returned(<<>>, 0)

Init ==
    /\ pc = "config"
    /\ environ = NoEnv
    /\ InitLocals
    /\ SseIdle

\* Except with the exit code of a success after an unexpected exception
Except_ExitZero(exc, msg) ==
    /\ pc' = "report"
    /\ IF exc = "ValueError"
       THEN /\ error_message' = msg
            /\ status' = "CONFIG_ERROR"
            /\ exit_code' = 2
       ELSE /\ error_message' = <<"Unexpected runtime error: ">> \o msg
            /\ status' = "RUNTIME_ERROR"
            /\ exit_code' = 0

\* Except that returns from main at once, without the report
Except_ReturnsAtOnce(exc, msg) ==
    /\ pc' = "done"
    /\ IF exc = "ValueError"
       THEN /\ error_message' = msg
            /\ status' = "CONFIG_ERROR"
            /\ exit_code' = 2
       ELSE /\ error_message' = <<"Unexpected runtime error: ">> \o msg
            /\ status' = "RUNTIME_ERROR"
            /\ exit_code' = 1

\* lines 404-413: the two except clauses of main.  ValueError and its
\* subclasses are a configuration error wherever they were raised.
Except(exc, msg) ==
    /\ pc' = "report"
    /\ IF exc = "ValueError"
       THEN /\ error_message' = msg
            /\ status' = "CONFIG_ERROR"
            /\ exit_code' = 2
       ELSE /\ error_message' = <<"Unexpected runtime error: ">> \o msg
            /\ status' = "RUNTIME_ERROR"
            /\ exit_code' = 1

\* lines 305-337, for the environments of the set E
ConfigureFrom(E) ==
    /\ pc = "config"
    /\ environ' \in E
    /\ LET L == ResolveConfig(environ') IN
         /\ api_url' = L.api_url
         /\ api_key' = L.api_key
         /\ model' = L.model
         /\ prompt' = L.prompt
         /\ request_count' = L.request_count
         /\ timeout_seconds' = L.timeout_seconds
         /\ max_runtime_seconds' = L.max_runtime_seconds
         /\ max_tokens' = L.max_tokens
         /\ pause_seconds' = L.pause_seconds
         /\ temperature' = L.temperature
         /\ IF L.raised
            THEN /\ Except("ValueError", L.err)
                 /\ resolved' = "failed"
                 /\ UNCHANGED <<suite_start, idx>>
            ELSE /\ suite_start' = now
                 /\ idx' = 1
                 /\ pc' = "loop"
                 /\ resolved' = "ok"
                 /\ UNCHANGED outcomeVars
    /\ UNCHANGED <<now, results, summaryVars, reportVars, calls, escaped, stopped_at, sleeps>>
    /\ UNCHANGED sseVars

Configure == ConfigureFrom(Envs)

\* lines 339-346: the head of the for loop and the budget check
LoopHead ==
    /\ pc = "loop"
    /\ IF idx > request_count
       THEN /\ pc' = "summary"
            /\ UNCHANGED stopped_at
       ELSE LET elapsed == now - suite_start IN
            IF max_runtime_seconds > 0 /\ elapsed >= max_runtime_seconds
            THEN /\ pc' = "summary"
                 /\ stopped_at' = idx
            ELSE /\ pc' = "request"
                 /\ UNCHANGED stopped_at
    /\ UNCHANGED <<environ, configVars, idx, now, suite_start, results, summaryVars,
                   outcomeVars, reportVars, resolved, calls, escaped, sleeps>>
    /\ UNCHANGED sseVars

\* lines 348-361: one request, its result appended, and the choice to pause,
\* for the network behaviours of the set B
ExecuteFrom(B) ==
    /\ pc = "request"
    /\ \E b \in B :
         LET r == run_single_request(idx, request_count, api_url, b) IN
         /\ now' = now + b.d
         /\ IF r.raised
            THEN /\ Except(r.exc, r.msg)
                 /\ escaped' = Append(escaped, [index |-> idx, exc |-> r.exc])
                 /\ UNCHANGED <<results, idx>>
            ELSE /\ results' = Append(results, r.result)
                 /\ UNCHANGED escaped
                 /\ IF FloatPos(pause_seconds) /\ idx # request_count
                    THEN /\ pc' = "sleep"
                         /\ UNCHANGED idx
                    ELSE /\ pc' = "loop"
                         /\ idx' = idx + 1
                 /\ UNCHANGED outcomeVars
         /\ calls' = Append(calls, [index |-> idx, at |-> now - suite_start, b |-> b])
    /\ UNCHANGED <<environ, configVars, suite_start, summaryVars, reportVars, resolved,
                   stopped_at, sleeps>>
    /\ UNCHANGED sseVars

ExecuteRequest == ExecuteFrom(Behaviours)

\* time.sleep(secs): an infinite (or huge) duration raises OverflowError
time_sleep(secs) ==
    IF secs.k = "inf"
    THEN Raise(<<"timestamp out of range for platform time_t">>)
    ELSE Ok(secs.v)

\* line 362
Sleep ==
    /\ pc = "sleep"
    /\ LET s == time_sleep(pause_seconds) IN
       IF s.ok
       THEN /\ now' = now + s.val
            /\ idx' = idx + 1
            /\ pc' = "loop"
            /\ UNCHANGED outcomeVars
       ELSE /\ Except("OverflowError", s.err)
            /\ UNCHANGED <<now, idx>>
    /\ sleeps' = Append(sleeps, idx)
    /\ UNCHANGED <<environ, configVars, suite_start, results, summaryVars, reportVars,
                   resolved, calls, escaped, stopped_at>>
    /\ UNCHANGED sseVars

\* success_durations that takes the duration of every result, failed or not
RECURSIVE all_durations(_)
all_durations(rs) ==
    IF rs = <<>> THEN <<>> ELSE <<Head(rs).duration>> \o all_durations(Tail(rs))

\* lines 366-372
RECURSIVE success_durations(_)
success_durations(rs) ==
    IF rs = <<>> THEN <<>>
    ELSE IF Head(rs).ok THEN <<Head(rs).duration>> \o success_durations(Tail(rs))
    ELSE success_durations(Tail(rs))
RECURSIVE sum(_)
sum(ds) == IF ds = <<>> THEN 0 ELSE Head(ds) + sum(Tail(ds))
min(ds) == CHOOSE m \in {ds[i] : i \in 1..Len(ds)} : \A i \in 1..Len(ds) : m <= ds[i]
max(ds) == CHOOSE m \in {ds[i] : i \in 1..Len(ds)} : \A i \in 1..Len(ds) : m >= ds[i]

\* Classify that tests the failures before the successes: a run without
\* any success counts as a partial success
Classify_FailuresFirst(n_attempted, n_success, n_failure, message) ==
    IF n_attempted = 0
    THEN [status |-> "FAILED", error_message |-> <<"No request attempted.">>,
          exit_code |-> 1]
    ELSE IF n_failure > 0
    THEN [status |-> "PARTIAL_SUCCESS", error_message |-> message, exit_code |-> 0]
    ELSE IF n_success = 0
    THEN [status |-> "FAILED", error_message |-> <<"All requests failed.">>,
          exit_code |-> 1]
    ELSE [status |-> "SUCCESS", error_message |-> message, exit_code |-> 0]

\* lines 390-403: the outcome of a loop that ended without an exception
Classify(n_attempted, n_success, n_failure, message) ==
    IF n_attempted = 0
    THEN [status |-> "FAILED", error_message |-> <<"No request attempted.">>,
          exit_code |-> 1]
    ELSE IF n_success = 0
    THEN [status |-> "FAILED", error_message |-> <<"All requests failed.">>,
          exit_code |-> 1]
    ELSE IF n_failure > 0
    THEN [status |-> "PARTIAL_SUCCESS", error_message |-> message, exit_code |-> 0]
    ELSE [status |-> "SUCCESS", error_message |-> message, exit_code |-> 0]

\* lines 364-403
Summarize ==
    /\ pc = "summary"
    /\ LET ds == success_durations(results)
           n == Len(results)
           c == Classify(n, Len(ds), n - Len(ds), error_message)
       IN  /\ total_runtime' = now - suite_start
           /\ attempted' = n
           /\ success_count' = Len(ds)
           /\ failure_count' = n - Len(ds)
           /\ availability' = IF n # 0 THEN Rat(Len(ds) * 100, n) ELSE Rat(0, 1)
           /\ avg_duration' = IF ds # <<>> THEN Rat(sum(ds), Len(ds)) ELSE NoneNum
           /\ fastest' = IF ds # <<>> THEN Rat(min(ds), 1) ELSE NoneNum
           /\ slowest' = IF ds # <<>> THEN Rat(max(ds), 1) ELSE NoneNum
           /\ status' = c.status
           /\ error_message' = c.error_message
           /\ exit_code' = c.exit_code
    /\ pc' = "report"
    /\ UNCHANGED <<environ, configVars, idx, now, suite_start, results, reportVars,
                   historyVars>>
    /\ UNCHANGED sseVars

\* lines 415-436
BuildReport ==
    /\ pc = "report"
    /\ report_lines' = build_report_lines(api_url, model, prompt, request_count,
           timeout_seconds, max_runtime_seconds, max_tokens, temperature,
           pause_seconds, attempted, success_count, failure_count, availability,
           total_runtime, avg_duration, fastest, slowest, results, status,
           error_message)
    /\ pc' = "persist"
    /\ UNCHANGED <<environ, configVars, idx, now, suite_start, results, summaryVars,
                   outcomeVars, readme, readme_before, readme_first, writes, historyVars>>
    /\ UNCHANGED sseVars

\* lines 437-455: the README is rewritten and main returns exit_code.  The
\* file is whatever is found at the path when it is read.  (The summary
\* appended to GITHUB_STEP_SUMMARY is a second sink, not part of the state.)
UpdateReadme ==
    /\ pc = "persist"
    /\ \E file \in Readmes :
         /\ readme_before' = file
         /\ readme_first' = file
         /\ readme' = File(update_readme_tail(file, report_lines))
    /\ writes' = writes + 1
    /\ pc' = "done"
    /\ UNCHANGED <<environ, configVars, idx, now, suite_start, results, summaryVars,
                   outcomeVars, report_lines, historyVars>>
    /\ UNCHANGED sseVars

Next ==
    \/ Configure
    \/ LoopHead
    \/ ExecuteRequest
    \/ Sleep
    \/ Summarize
    \/ BuildReport
    \/ UpdateReadme

Spec == Init /\ [][Next]_vars

\* every run goes on to its end: main is one sequential thread and each of
\* its blocking calls (a request, a sleep) returns or raises
\* The runs whose end is checked start from the environments in which at
\* most one setting is faulty, and their requests take one second each.
Faulty(env) ==
    { f \in {"OPENAI_REQUEST_COUNT", "OPENAI_REQUEST_TIMEOUT_SECONDS",
             "OPENAI_MAX_RUNTIME_SECONDS", "OPENAI_MAX_TOKENS"} :
          env[f].k \notin {"none", "empty", "int"} \/ (env[f].k = "int" /\ env[f].v <= 0) }
    \cup { f \in {"OPENAI_REQUEST_PAUSE_SECONDS", "OPENAI_TEMPERATURE"} :
          env[f].k = "abc" \/ (env[f].k = "int" /\ env[f].v < 0) }
    \cup { f \in {"OPENAI_API_KEY"} : env[f].k = "none" \/ env[f].s = <<>> }
FewEnvs == {env \in Envs : Cardinality(Faulty(env)) <= 1}
FewBehaviours == {b \in Behaviours : b.d = 1}
ConfigureFew == ConfigureFrom(FewEnvs)
ExecuteFew == ExecuteFrom(FewBehaviours)
NextFew ==
    \/ ConfigureFew
    \/ LoopHead
    \/ ExecuteFew
    \/ Sleep
    \/ Summarize
    \/ BuildReport
    \/ UpdateReadme
FairSpec == Init /\ [][NextFew]_vars /\ WF_vars(NextFew)

\* ------------------------------------------------------------------------
\* The Stream Decoder on its own
\* ------------------------------------------------------------------------
Token2 == <<"!">>
Other == Piece("other")
NoChoices == [NoJson EXCEPT !.top = "dict"]
ChunkOf(choices, first, delta, content) ==
    [top |-> "dict", choices |-> choices, first |-> first, delta |-> delta,
     content |-> content]
NoContent == [k |-> "none", s |-> <<>>]

\* the lines a response body is made of
SseLines ==
    { <<>>,                                                   \* a blank line
      <<Other>>,                                              \* ": keep-alive"
      <<DoneLit>>,                                            \* "[DONE]" without the prefix
      <<JsonPiece(Chunk(StrContent(Token2)))>>,               \* a chunk without the prefix
      HiFrame,
      <<DataPrefix, JsonPiece(Chunk(StrContent(Token2))), Ws>>,
      <<Ws, DataPrefix, Ws, JsonPiece(Chunk(StrContent(Token2)))>>,
      DoneFrame,
      <<DataPrefix>>,                                         \* an empty payload
      <<DataPrefix, Ws, Other>>,                              \* text that is not JSON
      <<DataPrefix, Ws, DoneLit, Ws, Other>>,                 \* "[DONE] x"
      NumberFrame,                                            \* data: 5
      <<DataPrefix, Ws, JsonPiece(NoChoices)>>,               \* data: {}
      <<DataPrefix, Ws, JsonPiece(ChunkOf("empty", "none", "absent", NoContent))>>,
      <<DataPrefix, Ws, JsonPiece(ChunkOf("list", "number", "absent", NoContent))>>,
      <<DataPrefix, Ws, JsonPiece(ChunkOf("list", "dict", "absent", NoContent))>>,
      <<DataPrefix, Ws, JsonPiece(ChunkOf("list", "dict", "null", NoContent))>>,
      <<DataPrefix, Ws, JsonPiece(Chunk(NoContent))>>,        \* "content": null
      <<DataPrefix, Ws, JsonPiece(Chunk(StrContent(<<>>)))>>  \* "content": ""
    }

RECURSIVE SeqsUpTo(_, _)
SeqsUpTo(S, n) ==
    IF n = 0 THEN {<<>>}
    ELSE LET shorter == SeqsUpTo(S, n - 1)
         IN  shorter \cup {Append(q, x) : q \in {r \in shorter : Len(r) = n - 1}, x \in S}

SseResponses ==
    [lines : SeqsUpTo(SseLines, MaxLines), fail : {"none", "timeout"}]

InitSSE ==
    /\ pc = "idle"
    /\ environ = NoEnv
    /\ InitLocals
    /\ sse_pc = "ready"
    /\ sse_response \in SseResponses
    /\ sse_result = Returned(<<>>, 0)

\* one call of parse_sse_stream
Decode ==
    /\ sse_pc = "ready"
    /\ sse_result' = parse_sse_stream(sse_response)
    /\ sse_pc' = "done"
    /\ UNCHANGED <<pc, environ, configVars, idx, now, suite_start, results,
                   summaryVars, outcomeVars, reportVars, historyVars, sse_response>>

NextSSE == Decode

SpecSSE == InitSSE /\ [][NextSSE]_vars

\* ------------------------------------------------------------------------
\* Persistence on its own: consecutive runs on the same document
\* ------------------------------------------------------------------------
\* the number of consecutive persistence steps
MaxRuns == 3

\* documents found at the README path before the first step
TailDocument ==
    File(<<"# Monitor", NL, NL, README_RESULT_START, NL, "old report", NL,
           README_RESULT_END, NL>>)
FooterDocument ==
    File(<<"# Monitor", NL, NL, README_RESULT_START, NL, "old report", NL,
           README_RESULT_END, NL, NL, "## License", NL>>)
PlainDocument == File(<<"# Monitor", NL, NL, "## License", NL>>)
SpacedDocument ==
    File(<<"# Monitor", NL, README_RESULT_START, NL, "old report", NL,
           README_RESULT_END, NL, NL, NL>>)
Documents == {NoFile, TailDocument, FooterDocument, PlainDocument, SpacedDocument}

\* prompts and error bodies that quote a marker of the region
MarkerPrompt == <<"close the block with ", README_RESULT_END, " please">>
MarkerBody == <<"see ", README_RESULT_START, " in the docs">>

\* the report of a run of one request with the given prompt: a success, or
\* a failure whose error text is err
ReportOf(a_prompt, err) ==
    LET ok == err = <<>>
        rs == << RequestResult(1, ok, 1, IF ok THEN 2 ELSE 0, err) >>
    IN  build_report_lines(DefaultUrl, Defaults.model, a_prompt, 1, 120, 0, 128,
            Defaults.temperature, Defaults.pause_seconds, 1,
            IF ok THEN 1 ELSE 0, IF ok THEN 0 ELSE 1,
            IF ok THEN Rat(100, 1) ELSE Rat(0, 1), 1,
            IF ok THEN Rat(1, 1) ELSE NoneNum, IF ok THEN Rat(1, 1) ELSE NoneNum,
            IF ok THEN Rat(1, 1) ELSE NoneNum, rs,
            IF ok THEN "SUCCESS" ELSE "FAILED",
            IF ok THEN <<>> ELSE <<"All requests failed.">>)
Reports ==
    { ReportOf(DefaultPrompt, <<>>),
      ReportOf(DefaultPrompt, <<"HTTPError ", "500", ": ">> \o ErrBody),
      ReportOf(MarkerPrompt, <<>>),
      ReportOf(DefaultPrompt, <<"HTTPError ", "500", ": ">> \o MarkerBody) }

InitReadme ==
    /\ pc = "idle"
    /\ environ = NoEnv
    /\ InitLocals
    /\ SseIdle

\* one run's persistence step: update_readme_tail on the file found at the
\* path, which after the first step is the file the previous step wrote
Persist ==
    /\ pc = "idle"
    /\ sse_pc = "idle"
    /\ writes < MaxRuns
    /\ \E lines \in Reports :
       \E file \in (IF writes = 0 THEN Documents ELSE {readme}) :
         /\ report_lines' = lines
         /\ readme_before' = file
         /\ readme_first' = IF writes = 0 THEN file ELSE readme_first
         /\ readme' = File(update_readme_tail(file, lines))
    /\ writes' = writes + 1
    /\ UNCHANGED <<pc, environ, configVars, idx, now, suite_start, results,
                   summaryVars, outcomeVars, historyVars>>
    /\ UNCHANGED sseVars

NextReadme == Persist

SpecReadme == InitReadme /\ [][NextReadme]_vars

\* ------------------------------------------------------------------------
\* Properties
\* ------------------------------------------------------------------------
Range(q) == {q[i] : i \in 1..Len(q)}
Finished == pc \in {"report", "persist", "done"}

\* C1: run_single_request never raises: every call returns a RequestResult,
\* and every failure comes back as a result with ok = false and a
\* non-empty error message; no exception reaches the caller.
C1_NeverRaises ==
    /\ escaped = <<>>
    /\ Len(results) = Len(calls)
    /\ \A i \in 1..Len(results) : ~results[i].ok => results[i].error # <<>>

\* --- C2 -----------------------------------------------------------------
IntValue(raw, default) == IF raw.k = "int" THEN raw.v ELSE default
IntParses(raw) == raw.k \in {"none", "empty", "int"}
FloatParses(raw) == raw.k \in {"none", "empty", "int", "inf"}

\* the failures of configuration resolution the claim lists, read off the
\* environment
CredentialMissing(env) ==
    env.OPENAI_API_KEY.k = "none" \/ env.OPENAI_API_KEY.s = <<>>
SettingUnparsable(env) ==
    \/ ~IntParses(env.OPENAI_REQUEST_COUNT)
    \/ ~IntParses(env.OPENAI_REQUEST_TIMEOUT_SECONDS)
    \/ ~IntParses(env.OPENAI_MAX_RUNTIME_SECONDS)
    \/ ~IntParses(env.OPENAI_MAX_TOKENS)
    \/ ~FloatParses(env.OPENAI_REQUEST_PAUSE_SECONDS)
    \/ ~FloatParses(env.OPENAI_TEMPERATURE)
SettingInvalid(env) ==
    \/ IntValue(env.OPENAI_REQUEST_COUNT, 5) <= 0
    \/ IntValue(env.OPENAI_REQUEST_TIMEOUT_SECONDS, 120) <= 0
    \/ IntValue(env.OPENAI_MAX_TOKENS, 128) <= 0
    \/ IntValue(env.OPENAI_MAX_RUNTIME_SECONDS, 0) < 0
    \/ IntValue(env.OPENAI_REQUEST_PAUSE_SECONDS, 0) < 0
ResolutionFails(env) ==
    CredentialMissing(env) \/ SettingUnparsable(env) \/ SettingInvalid(env)

\* C2: when configuration resolution fails (credential absent or empty, a
\* numeric setting that does not parse, or a validation violation) the run
\* ends with CONFIG_ERROR and exit code 2, run_single_request is never
\* called and the result sequence stays empty.
C2_ConfigErrorShortCircuits ==
    (pc # "config" /\ ResolutionFails(environ)) =>
        /\ status = "CONFIG_ERROR"
        /\ exit_code = 2
        /\ calls = <<>>
        /\ results = <<>>

C2_Witness ==
    /\ pc = "done"
    /\ environ.OPENAI_API_KEY.k = "str" /\ environ.OPENAI_API_KEY.s # <<>>
    /\ ~SettingUnparsable(environ)
    /\ IntValue(environ.OPENAI_REQUEST_COUNT, 5) <= 0
    /\ status = "CONFIG_ERROR"

\* --- C3 -----------------------------------------------------------------
BudgetReached == max_runtime_seconds > 0 /\ now - suite_start >= max_runtime_seconds

C3_Inv ==
    \* a request is called only while the budget is not reached
    /\ \A k \in 1..Len(calls) :
           max_runtime_seconds > 0 => calls[k].at < max_runtime_seconds
    \* once the loop has stopped at index i, nothing with index >= i exists
    /\ stopped_at > 0 =>
           /\ pc \in {"summary", "report", "persist", "done"}
           /\ \A k \in 1..Len(calls) : calls[k].index < stopped_at
           /\ \A k \in 1..Len(results) : results[k].index < stopped_at

C3_Step(mayRaise) ==
    \* the check at the head of the loop, for each planned index
    /\ (pc = "loop" /\ idx <= request_count) =>
           IF BudgetReached
           THEN pc' = "summary" /\ stopped_at' = idx
                /\ results' = results /\ calls' = calls
           ELSE pc' = "request" /\ stopped_at' = 0
    \* the budget is looked at nowhere else: a request in flight is carried
    \* out whatever the time it takes, and its result is appended
    /\ pc = "request" =>
           /\ stopped_at' = stopped_at
           /\ Len(calls') = Len(calls) + 1
           /\ calls'[Len(calls')].index = idx
           /\ \/ /\ Len(results') = Len(results) + 1
                 /\ results'[Len(results')].index = idx
              \/ mayRaise /\ Len(escaped') = Len(escaped) + 1
    /\ pc \notin {"loop", "request"} => stopped_at' = stopped_at

\* C3: before each request i the runner compares the elapsed time with the
\* budget; with a budget > 0 that is reached the loop stops and no request
\* with index >= i is executed or recorded.  The budget is checked only
\* there: a request that has started is never cut short and always yields
\* its result.
C3_BudgetEarlyStop == []C3_Inv /\ [][C3_Step(FALSE)]_vars

\* The same statement without its last clause: a request that has started
\* is never cut short by the budget, and either yields its result or raises.
C3_BudgetChecks == []C3_Inv /\ [][C3_Step(TRUE)]_vars

C3_Witness ==
    /\ pc = "done"
    /\ stopped_at > 1
    /\ Len(results) = stopped_at - 1
    /\ Len(results) < request_count

\* C4: per-request errors never abort the run: a request that fails leaves
\* a failed RequestResult, and the next planned request is executed; with
\* no budget all planned requests are executed whatever fails.
C4_ErrorsNeverAbort ==
    /\ \A k \in 1..Len(calls) :
           \E i \in 1..Len(results) : results[i].index = calls[k].index
    /\ (Finished /\ resolved = "ok" /\ max_runtime_seconds = 0
            /\ pause_seconds.k = "fin") =>
           Len(results) = request_count

\* C5: when the report is built, success_count + failure_count ==
\* attempted == N, the number of results handed to the report, and
\* N <= planned_count (the planned count of the resolved configuration).
C5_CountsAddUp ==
    pc = "report" =>
        /\ success_count + failure_count = attempted
        /\ attempted = Len(results)
        /\ resolved = "ok" => Len(results) <= request_count

C6_Cases(no_attempt, all_failed) ==
    pc = "summary" =>
        LET case1 == attempted' = 0
            case2 == attempted' > 0 /\ success_count' = 0
            case3 == success_count' >= 1 /\ failure_count' >= 1
            case4 == success_count' = attempted' /\ attempted' > 0
        IN  /\ attempted' = Len(results)
            /\ success_count' = Cardinality({i \in 1..Len(results) : results[i].ok})
            /\ case1 => status' = "FAILED" /\ error_message' = <<no_attempt>>
            /\ case2 => status' = "FAILED" /\ error_message' = <<all_failed>>
            /\ case3 => status' = "PARTIAL_SUCCESS"
            /\ case4 => status' = "SUCCESS"
            /\ Cardinality({c \in {1, 2, 3, 4} :
                   \/ c = 1 /\ case1
                   \/ c = 2 /\ case2
                   \/ c = 3 /\ case3
                   \/ c = 4 /\ case4}) = 1

C7_ExitCodeByStatus ==
    pc = "done" =>
        /\ status \in {"SUCCESS", "PARTIAL_SUCCESS", "FAILED", "RUNTIME_ERROR",
                       "CONFIG_ERROR"}
        /\ exit_code = 0 <=> status \in {"SUCCESS", "PARTIAL_SUCCESS"}
        /\ exit_code = 1 <=> status \in {"FAILED", "RUNTIME_ERROR"}
        /\ exit_code = 2 <=> status = "CONFIG_ERROR"

C7_Witness ==
    /\ pc = "done"
    /\ status = "RUNTIME_ERROR"
    /\ exit_code = 1
    /\ results # <<>>

\* C8: CONFIG_ERROR comes only from a failure of configuration resolution:
\* an exception raised after the configuration was resolved gives
\* RUNTIME_ERROR with exit code 1, never CONFIG_ERROR.
C8_ConfigErrorOnlyFromResolution ==
    /\ status = "CONFIG_ERROR" => resolved = "failed"
    /\ (Finished /\ resolved = "ok" /\ escaped # <<>>) =>
           status = "RUNTIME_ERROR" /\ exit_code = 1

\* --- C9 -----------------------------------------------------------------
\* text contains the pieces part, one after the other
Contains(text, part) ==
    \E i \in 0..(Len(text) - Len(part)) :
        \A k \in 1..Len(part) : text[i + k] = part[k]
Count(text, piece) == Cardinality({i \in 1..Len(text) : text[i] = piece})

\* the text between the start marker and the end marker of a document
RegionOf(content) ==
    LET s == CHOOSE i \in 1..Len(content) : content[i] = README_RESULT_START
        e == CHOOSE i \in 1..Len(content) : content[i] = README_RESULT_END
    IN  SubSeq(content, s + 1, e - 1)

\* the README holds one region, and the region shows the status, the error
\* message and one row per recorded result, in order
PersistedReflectsRun ==
    /\ readme.exists
    /\ Count(readme.content, README_RESULT_START) = 1
    /\ Count(readme.content, README_RESULT_END) = 1
    /\ LET region == RegionOf(readme.content) IN
       /\ Contains(region, <<"- status: **", status, "**">>)
       /\ IF error_message = <<>> THEN Count(region, "- error: ") = 0
          ELSE /\ Count(region, "- error: ") = 1
               /\ \A p \in Range(error_message) \ {"|", NL} : Count(region, p) >= 1
       /\ Count(region, "| ") = Len(results)
       /\ \A k \in 1..Len(results) :
              Contains(region, <<"| ", ToString(results[k].index), " | ",
                                 IF results[k].ok THEN "SUCCESS" ELSE "FAILED", " | ">>)
       /\ \A k \in 1..Len(results) : \A p \in Range(results[k].error) \ {"|", NL} :
              Count(region, p) >= 1
       /\ results = <<>> <=> Count(region, "| - | - | - | - | no request executed |") = 1

NonWs(line) == SelectSeq(line, LAMBDA p : p.t # "ws")
IsDataFrame(line) == NonWs(line) # <<>> /\ NonWs(line)[1].t = "data:"
PayloadOf(line) == Tail(NonWs(line))
IsDoneFrame(line) == IsDataFrame(line) /\ PayloadOf(line) = <<DoneLit>>
\* the non-empty text token choices[0].delta.content of a frame, or <<>>
TokenOf(line) ==
    IF /\ IsDataFrame(line)
       /\ Len(PayloadOf(line)) = 1
       /\ PayloadOf(line)[1].t = "json"
       /\ PayloadOf(line)[1].j.top = "dict"
       /\ PayloadOf(line)[1].j.choices = "list"
       /\ PayloadOf(line)[1].j.first = "dict"
       /\ PayloadOf(line)[1].j.delta = "dict"
       /\ PayloadOf(line)[1].j.content.k = "str"
    THEN PayloadOf(line)[1].j.content.s
    ELSE <<>>
\* the number of lines up to the first [DONE] frame or the end of input
LinesUntilDone(lines) ==
    IF \E i \in 1..Len(lines) : IsDoneFrame(lines[i])
    THEN CHOOSE i \in 1..Len(lines) :
             IsDoneFrame(lines[i]) /\ \A k \in 1..(i - 1) : ~IsDoneFrame(lines[k])
    ELSE Len(lines)
RECURSIVE TokensOf(_, _)
TokensOf(lines, n) ==
    IF n = 0 THEN <<>> ELSE TokensOf(lines, n - 1) \o TokenOf(lines[n])
ExpectedText(lines) == TokensOf(lines, LinesUntilDone(lines))

\* C10: parse_sse_stream returns the concatenation, in arrival order, of
\* the non-empty tokens choices[0].delta.content of the data: frames before
\* the first [DONE] frame or the end of input; other lines contribute
\* nothing, no line after [DONE] is read, and a stream that is empty or
\* ends without [DONE] returns the text accumulated so far without error.
C10_DecodedText ==
    (sse_pc = "done" /\ sse_response.fail = "none") =>
        /\ ~sse_result.raised
        /\ sse_result.text = ExpectedText(sse_response.lines)
        /\ sse_result.read = LinesUntilDone(sse_response.lines)

\* --- C11 ----------------------------------------------------------------
\* a data: frame that is not [DONE] and carries no usable token: its payload
\* is empty, is not JSON, is not an object, or has no choices[0].delta.content
\* text
Malformed(line) == IsDataFrame(line) /\ ~IsDoneFrame(line) /\ TokenOf(line) = <<>>

\* C11: malformed frames never abort the decode: a data: frame whose payload
\* is not a structured object, or that has no usable choice/token, is
\* skipped; no exception leaves parse_sse_stream and the tokens of the later
\* valid frames before [DONE] or the end of input are in the result.
C11_MalformedSkipped ==
    (/\ sse_pc = "done"
     /\ sse_response.fail = "none"
     /\ \E i \in 1..LinesUntilDone(sse_response.lines) :
            Malformed(sse_response.lines[i])) =>
        /\ ~sse_result.raised
        /\ sse_result.text = ExpectedText(sse_response.lines)

\* --- C12 ----------------------------------------------------------------
\* the three message prefixes of a failed request
ProtocolPrefix == "HTTPError "
TransportPrefix == "Network/Timeout error: "
UnexpectedPrefix == "Unexpected error: "
\* the network answered with a status other than 200 and its body was read
NonSuccessStatus(b) ==
    b.open \in {"ok", "HTTPError"} /\ b.status # 200 /\ b.body = "ok"
\* the connection failed or timed out: at the connect, while the error body
\* was read, or while the stream was read
TransportFailure(b) ==
    \/ b.open \in {"URLError", "timeout"}
    \/ b.open = "ok" /\ b.status # 200 /\ b.body = "timeout"
    \/ /\ b.open = "ok" /\ b.status = 200 /\ b.response.fail = "timeout"
       /\ \A i \in 1..Len(b.response.lines) :
              ~IsDoneFrame(b.response.lines[i]) /\ ~Malformed(b.response.lines[i])
\* the result recorded for call j, if there is one
ResultsOf(j) == {k \in 1..Len(results) : results[k].index = calls[j].index}

\* C12: a failed request is reported under one of three pairwise distinct
\* prefixes: a response whose status is not 200 is a protocol error whose
\* message carries the status and the body and never has the prefix of an
\* unexpected error; connection and timeout failures, a timeout during the
\* stream read included, are transport errors; only the rest is unexpected.
C12_FailureKinds ==
    \A j \in 1..Len(calls) : \A k \in ResultsOf(j) :
        LET b == calls[j].b
            e == results[k].error
        IN  ~results[k].ok =>
            /\ e # <<>>
            /\ e[1] \in {ProtocolPrefix, TransportPrefix, UnexpectedPrefix}
            /\ NonSuccessStatus(b) =>
                   /\ e[1] = ProtocolPrefix
                   /\ Contains(e, <<ToString(b.status), ": ">> \o ErrBody)
            /\ TransportFailure(b) => e[1] = TransportPrefix
            /\ e[1] = UnexpectedPrefix =>
                   ~NonSuccessStatus(b) /\ ~TransportFailure(b)

\* --- C13 ----------------------------------------------------------------
\* C13: after request i the runner sleeps if and only if a pause is
\* configured (> 0) and i is not the last planned index; no sleep follows
\* the last request of the run, none is made for a request skipped by early
\* termination, and every sleep is followed by the execution of another
\* request.
C13_PauseBetweenRequests ==
    /\ \A s \in 1..Len(sleeps) :
           \E k \in 1..Len(results) : results[k].index = sleeps[s]
    /\ pc # "sleep" =>
           \A k \in 1..Len(results) :
               (\E s \in 1..Len(sleeps) : sleeps[s] = results[k].index)
                   <=> (FloatPos(pause_seconds) /\ results[k].index # request_count)
    /\ Finished =>
           \A s \in 1..Len(sleeps) :
               \E j \in 1..Len(calls) : calls[j].index = sleeps[s] + 1

\* --- C14 ----------------------------------------------------------------
\* a document with one region: one start marker, one end marker after it
HasOneRegion(content) ==
    /\ Count(content, README_RESULT_START) = 1
    /\ Count(content, README_RESULT_END) = 1
    /\ find(content, README_RESULT_START, 1) < find(content, README_RESULT_END, 1)
TextBefore(content) == SubSeq(content, 1, find(content, README_RESULT_START, 1) - 1)
TextAfter(content) ==
    SubSeq(content, find(content, README_RESULT_END, 1) + 1, Len(content))

\* C14: update_readme_tail replaces only the delimited region: on an
\* existing document with a region, the new document has the fresh report,
\* wrapped in the markers, in the place of the region; the text before the
\* start marker and the text after the end marker are identical to, and at
\* the same place as, before the step.
C14_ReplacesOnlyRegion ==
    (/\ writes >= 1
     /\ readme_before.exists
     /\ HasOneRegion(readme_before.content)) =>
        LET old == readme_before.content
            new == readme.content
            s == Len(TextBefore(old)) + 1
            e == Len(new) - Len(TextAfter(old))
        IN  /\ s < e
            /\ SubSeq(new, 1, s - 1) = TextBefore(old)
            /\ new[s] = README_RESULT_START
            /\ new[e] = README_RESULT_END
            /\ SubSeq(new, e + 1, Len(new)) = TextAfter(old)
            /\ Contains(SubSeq(new, s + 1, e - 1), report_lines[1])

\* --- C15 ----------------------------------------------------------------
\* the indices of the successful results, and the sum of their durations
Successes == {k \in 1..Len(results) : results[k].ok}
RECURSIVE SumOver(_)
SumOver(K) ==
    IF K = {} THEN 0
    ELSE LET k == CHOOSE x \in K : TRUE IN results[k].duration + SumOver(K \ {k})
\* x <= y for two numbers num/den with positive denominators
Leq(x, y) == x.num * y.den <= y.num * x.den

\* C15: the average, minimum and maximum duration are present (not N/A) if
\* and only if success_count > 0; when present they are computed over the
\* durations of the successful results only, and minimum <= average <=
\* maximum.
C15_DurationStats ==
    /\ avg_duration.k = "num" <=> success_count > 0
    /\ fastest.k = "num" <=> success_count > 0
    /\ slowest.k = "num" <=> success_count > 0
    /\ success_count > 0 =>
           /\ success_count = Cardinality(Successes)
           /\ avg_duration.num * Cardinality(Successes) = SumOver(Successes) * avg_duration.den
           /\ \E k \in Successes : fastest = Rat(results[k].duration, 1)
           /\ \E k \in Successes : slowest = Rat(results[k].duration, 1)
           /\ \A k \in Successes : /\ Leq(fastest, Rat(results[k].duration, 1))
                                   /\ Leq(Rat(results[k].duration, 1), slowest)
           /\ Leq(fastest, avg_duration)
           /\ Leq(avg_duration, slowest)

C15_Witness ==
    /\ pc = "done"
    /\ success_count = 1
    /\ failure_count = 1
    /\ \E k \in 1..Len(results) : ~results[k].ok /\ results[k].duration = 2
    /\ avg_duration = Rat(1, 1)
    /\ fastest = Rat(1, 1)
    /\ slowest = Rat(1, 1)

\* --- C16 ----------------------------------------------------------------
\* C16: the reported availability is 0 when the number N of executed
\* requests is 0, and otherwise 100 * success_count / N, success_count being
\* the number of successful results among the N executed requests.
C16_Availability ==
    pc \in {"report", "persist", "done"} =>
        LET N == Len(results) IN
        IF N = 0 THEN availability.num = 0
        ELSE availability.num * N = 100 * Cardinality(Successes) * availability.den

\* --- C17 ----------------------------------------------------------------
\* the k-th result has index k, and there are at most planned_count results
C17_InOrder ==
    /\ \A k \in 1..Len(results) : results[k].index = k
    /\ resolved = "ok" => Len(results) <= request_count
\* a step leaves the results alone or appends one result to them
C17_AppendOnly ==
    \/ results' = results
    \/ /\ Len(results') = Len(results) + 1
       /\ SubSeq(results', 1, Len(results)) = results
       /\ Len(calls') = Len(calls) + 1
\* every executed request has its result
C17_OnePerRequest ==
    /\ Len(calls) = Len(results)
    /\ \A j \in 1..Len(calls) : Cardinality(ResultsOf(j)) = 1

\* C17: the result sequence is append-only and in execution order: its k-th
\* element has index k (indices 1..N, N <= planned_count), exactly one
\* result is appended per executed request, and no earlier element is ever
\* changed or removed.
C17_ResultSequence ==
    [](C17_InOrder /\ C17_OnePerRequest) /\ [][C17_AppendOnly]_vars

\* C17 but for the requests that raise: the sequence is in order and
\* append-only, with at most one result per executed request
C17_OrderedAppendOnly == []C17_InOrder /\ [][C17_AppendOnly]_vars

\* --- C18 ----------------------------------------------------------------
\* C18: every RequestResult returned by run_single_request has a consistent
\* shape: ok = true implies an empty error message and a character count
\* equal to the length of the decoded text; ok = false implies a character
\* count of 0 and a non-empty error message (so ok is true exactly when the
\* error message is empty); the index is the index the executor was called
\* with.
C18_ResultShape ==
    \A k \in 1..Len(results) :
        LET r == results[k]
            b == calls[k].b
        IN  /\ r.index = calls[k].index
            /\ r.ok <=> r.error = <<>>
            /\ r.ok => /\ b.open = "ok" /\ b.status = 200
                       /\ r.chars = Len(ExpectedText(b.response.lines))
            /\ ~r.ok => r.chars = 0 /\ r.error # <<>>

C18_Witness ==
    /\ pc = "done"
    /\ Len(results) = 2
    /\ results[1].ok /\ results[1].chars = 2 /\ results[1].error = <<>>
    /\ ~results[2].ok /\ results[2].chars = 0 /\ results[2].index = 2
    /\ results[2].error[1] = TransportPrefix

\* --- C19 ----------------------------------------------------------------
\* a text without its blanks and newlines
NonSpace(text) == SelectSeq(text, LAMBDA p : ~IsSpace(p))
\* the last position of piece in text, or 0
LastOf(text, piece) ==
    IF Count(text, piece) = 0 THEN 0
    ELSE CHOOSE i \in 1..Len(text) :
             text[i] = piece /\ \A k \in (i + 1)..Len(text) : text[k] # piece
\* the caller-owned content of a document: what is outside its region, from
\* the first start marker to the last end marker; all of it when it has no
\* region; the placeholder header when the file is missing
CallerOwned(file) ==
    LET c == IF file.exists THEN file.content ELSE PlaceholderReadme
        s == find(c, README_RESULT_START, 1)
        e == LastOf(c, README_RESULT_END)
    IN  IF s = 0 \/ e < s THEN NonSpace(c)
        ELSE NonSpace(SubSeq(c, 1, s - 1) \o SubSeq(c, e + 1, Len(c)))

\* C19: after any number of consecutive persistence steps on a document,
\* whatever the reports contain (prompt, error texts), the document has
\* exactly one region (one start marker, one end marker) holding only the
\* most recent report, and the caller-owned content outside the markers is
\* what it was before the first step: nothing of an older report is left
\* outside the region.
C19_OneRegionAcrossRuns ==
    writes >= 1 =>
        /\ HasOneRegion(readme.content)
        /\ NonSpace(RegionOf(readme.content)) = NonSpace(join_lines(report_lines))
        /\ CallerOwned(readme) = CallerOwned(readme_first)

====
